---- MODULE Spec2Model ----
(***************************************************************************)
(* Model of the NYC 311 batch loader, src/etl/etl.py.                      *)
(*                                                                         *)
(* main() is a single-threaded, strictly sequential program.  Each action  *)
(* below is one statement (or one loop iteration) of main(); pc is the     *)
(* position of the program.  The two collaborators, the CSV file and the   *)
(* MySQL sink, are part of the state: `source` and `columns` are the file, *)
(* `committed` is the service_requests table as any reader sees it and     *)
(* `view` is the same table as the loader's own transaction sees it        *)
(* (pymysql connections are opened with autocommit off).  Every call into  *)
(* a collaborator may raise; that is a nondeterministic choice.            *)
(*                                                                         *)
(* All cell values are strings.  The markers "<NaN>", "<NaT>" and "<None>" *)
(* stand for numpy.nan, pandas.NaT and Python None; "ts:..." is a parsed   *)
(* timestamp and "f:..." a parsed float.                                   *)
(***************************************************************************)
EXTENDS Integers, Sequences, FiniteSets, TLC

\* ------------------------------------------------------------------ bounds
\* Longest source file (data rows) of the main specification.
MaxRows == 3
\* Rows per chunk.  The program uses 10000 (etl.py:17); the model scales it
\* down so that a source of MaxRows rows spans several chunks.
CHUNK_SIZE == 2
\* Source length of the error-logging specification: more rows than
\* ERROR_LOG_LIMIT, so that the limit is crossed.
LogRows == 12

\* ------------------------------------------------------- program constants
\* Only the first ERROR_LOG_LIMIT per-row errors are printed (etl.py:96).
ERROR_LOG_LIMIT == 10

NaN == "<NaN>"
NaT == "<NaT>"
None == "<None>"

\* ------------------------------------------------------------- the source
Cols ==
  {"Unique Key", "Created Date", "Closed Date", "Agency", "Complaint Type",
   "Descriptor", "Borough", "Latitude", "Longitude"}

RawRow(k, cr, cl, ag, ct, de, bo, la, lo) ==
  [c \in Cols |->
     CASE c = "Unique Key" -> k
       [] c = "Created Date" -> cr
       [] c = "Closed Date" -> cl
       [] c = "Agency" -> ag
       [] c = "Complaint Type" -> ct
       [] c = "Descriptor" -> de
       [] c = "Borough" -> bo
       [] c = "Latitude" -> la
       [] OTHER -> lo]

\* The text of the data lines the model draws source files from: a plain
\* row, a row with blank borough and unparseable latitude, a later row with
\* the key of the first but other values and blank coordinates, and a row
\* with a whitespace borough and an unparseable date.
RowA == RawRow("1", "2025-01-05", "", "DOT", "Noise", "Loud", "BRONX", "40.8", "-73.9")
RowB == RawRow("2", "2025-01-06", "2025-01-07", "NYPD", "Theft", "", "", "bad", "")
RowC == RawRow("1", "2025-01-08", "", "DOT", "Noise", "Loud", "QUEENS", "", "")
RowD == RawRow("3", "notadate", "", "DSNY", "Trash", "Bags", " ", "40.6", "NA")
RawRows == {RowA, RowB, RowC, RowD}

\* Headers the model draws from: the full extract, and one without Borough.
ColumnSets == {Cols, Cols \ {"Borough"}}

SeqsUpTo(S, n) == UNION {[1..m -> S] : m \in 0..n}

\* ------------------------------------------------------------ pd.read_csv
\* Cells the CSV reader turns into NaN (its default missing-value tokens).
NaTokens == {"", "NA", "N/A", "NULL", "NaN", "nan", "null"}

ReadCell(raw) == IF raw \in NaTokens THEN NaN ELSE raw

\* One data line as a row of the DataFrame: only the header's columns.
ReadRow(raw, cols) == [c \in cols |-> ReadCell(raw[c])]

Min(a, b) == IF a < b THEN a ELSE b

\* The chunk that starts after `p` rows have been consumed.
ReadChunkRows(src, cols, p) ==
  [i \in 1..Min(CHUNK_SIZE, Len(src) - p) |-> ReadRow(src[p + i], cols)]

\* -------------------------------------------------------------- clean_data
FillNa(v, d) == IF v = NaN THEN d ELSE v

ReplaceValue(v, old, new) == IF v = old THEN new ELSE v

\* The borough rule without its fillna.
CleanBorough_NoFill(v) == ReplaceValue(v, "", "UNKNOWN")

\* df['Borough'].fillna('UNKNOWN').replace('', 'UNKNOWN')
CleanBorough(v) == ReplaceValue(FillNa(v, "UNKNOWN"), "", "UNKNOWN")

\* The date strings of the modelled rows that pandas parses.
DateStrings == {"2025-01-05", "2025-01-06", "2025-01-07", "2025-01-08"}

\* pd.to_datetime(..., errors='coerce'): a timestamp, or NaT.
ToDatetime(v) == IF v \in DateStrings THEN "ts:" \o v ELSE NaT

\* The numeric strings of the modelled rows.
NumericStrings == {"40.8", "-73.9", "40.6"}

\* pd.to_numeric(..., errors='coerce'): a float, or NaN.
ToNumeric(v) == IF v \in NumericStrings THEN "f:" \o v ELSE NaN

\* df.replace({np.nan: None})
NanToNone(v) == IF v = NaN THEN None ELSE v

CleanCell(c, v) ==
  NanToNone(
    CASE c = "Borough" -> CleanBorough(v)
      [] c \in {"Created Date", "Closed Date"} -> ToDatetime(v)
      [] c \in {"Latitude", "Longitude"} -> ToNumeric(v)
      [] OTHER -> v)

\* clean_data on one row of the frame; each rule applies only to a column
\* that is present, and no row is added or dropped.
CleanRow(row) == [c \in DOMAIN row |-> CleanCell(c, row[c])]

clean_data(df) == [i \in 1..Len(df) |-> CleanRow(df[i])]

\* ------------------------------------------------------------- the write
\* pd.isna(val) -> None
safe_value(val) == IF val \in {NaN, NaT, None} THEN None ELSE val

\* row.get(col, default)
Get(row, c, default) == IF c \in DOMAIN row THEN row[c] ELSE default

\* The nine parameters of the REPLACE statement.
Params(row) ==
  [unique_key |-> safe_value(Get(row, "Unique Key", None)),
   created_date |-> safe_value(Get(row, "Created Date", None)),
   closed_date |-> safe_value(Get(row, "Closed Date", None)),
   agency |-> safe_value(Get(row, "Agency", None)),
   complaint_type |-> safe_value(Get(row, "Complaint Type", None)),
   descriptor |-> safe_value(Get(row, "Descriptor", None)),
   borough |-> safe_value(Get(row, "Borough", "UNKNOWN")),
   latitude |-> safe_value(Get(row, "Latitude", None)),
   longitude |-> safe_value(Get(row, "Longitude", None))]

\* A replace that merges: a NULL parameter keeps the old row's value.
ReplaceInto_Merge(table, r) ==
  {t \in table : t.unique_key # r.unique_key} \cup
  {[f \in DOMAIN r |-> IF r[f] = None THEN t[f] ELSE r[f]] :
     t \in {u \in table : u.unique_key = r.unique_key}} \cup
  (IF \E u \in table : u.unique_key = r.unique_key THEN {} ELSE {r})

\* REPLACE INTO service_requests: the row with the same primary key, if any,
\* is deleted and the new row is inserted.
ReplaceInto(table, r) ==
  {t \in table : t.unique_key # r.unique_key} \cup {r}

\* What the whole pipeline stores for one data line of the file.
Stored(raw, cols) == Params(CleanRow(ReadRow(raw, cols)))

\* A row left in the table by an earlier run.
OldRow ==
  [unique_key |-> "1", created_date |-> "ts:2024-12-31", closed_date |-> "ts:2025-01-02",
   agency |-> "DEP", complaint_type |-> "Water", descriptor |-> "Leak",
   borough |-> "BROOKLYN", latitude |-> "f:40.8", longitude |-> "f:-73.9"]

InitialTables == {{}, {OldRow}}

\* ------------------------------------------------------------------ state
VARIABLES
  pc,           \* position of main()
  source,       \* the data lines of the CSV file
  columns,      \* the header of the CSV file
  table0,       \* the table before the run (history)
  conn,         \* the sink connection: "none", "open" or "closed"
  cursor,       \* its cursor: "none", "open" or "closed"
  committed,    \* service_requests as readers see it
  view,         \* service_requests as the loader's transaction sees it
  total_rows, chunk_num, error_count,
  chunk,        \* the DataFrame of the current chunk
  idx,          \* 1-based position of iterrows() in the chunk
  pos,          \* data lines consumed by the chunk reader
  logged,       \* per-row error messages printed so far
  summary,      \* the statistics block, once printed
  traced,       \* the fatal error and its traceback were printed
  exc,          \* "none", "handled", "pending" (raised inside the handler
                \* and propagating after the finally block) or "escaped"
  failure,      \* the first run-level failure, or "none" (history)
  outcome,      \* per executed data line, "ok" or "err" (history)
  commit_pos    \* data lines covered by committed chunks (history)

vars ==
  <<pc, source, columns, table0, conn, cursor, committed, view, total_rows,
    chunk_num, error_count, chunk, idx, pos, logged, summary, traced, exc,
    failure, outcome, commit_pos>>

file == <<source, columns, table0>>
counters == <<total_rows, chunk_num, error_count>>
frame == <<chunk, idx, pos>>
sink == <<conn, cursor, committed, view>>
history == <<outcome, commit_pos>>

Start(src, cols, t0) ==
  /\ pc = "connect"
  /\ source = src /\ columns = cols /\ table0 = t0
  /\ conn = "none" /\ cursor = "none"
  /\ committed = t0 /\ view = t0
  /\ total_rows = 0 /\ chunk_num = 0 /\ error_count = 0
  /\ chunk = <<>> /\ idx = 0 /\ pos = 0
  /\ logged = 0 /\ summary = <<>> /\ traced = FALSE
  /\ exc = "none" /\ failure = "none"
  /\ outcome = <<>> /\ commit_pos = 0

Init ==
  \E src \in SeqsUpTo(RawRows, MaxRows), cols \in ColumnSets, t0 \in InitialTables :
    Start(src, cols, t0)

\* A long file of rows that all carry the same key.
LongSource(n) == [i \in 1..n |-> IF i % 2 = 1 THEN RowA ELSE RowC]

InitLog ==
  \E n \in {LogRows - 1, LogRows}, cols \in ColumnSets :
    Start(LongSource(n), cols, {})

\* An exception raised inside the try block: control goes to the handler.
Raise(what) ==
  /\ pc' = "except"
  /\ failure' = IF failure = "none" THEN what ELSE failure

\* ---------------------------------------------------------------- actions
\* conn = pymysql.connect(**DB_CONFIG), before the try block.
Connect ==
  /\ pc = "connect"
  /\ conn' = "open"
  /\ pc' = "cursor"
  /\ UNCHANGED <<file, cursor, committed, view, counters, frame, logged,
                 summary, traced, exc, failure, history>>

ConnectFails ==
  /\ pc = "connect"
  /\ pc' = "done"
  /\ exc' = "escaped"
  /\ failure' = "connect"
  /\ UNCHANGED <<file, sink, counters, frame, logged, summary, traced, history>>

\* cursor = conn.cursor(), before the try block.
OpenCursor ==
  /\ pc = "cursor"
  /\ cursor' = "open"
  /\ pc' = "peek"
  /\ UNCHANGED <<file, conn, committed, view, counters, frame, logged,
                 summary, traced, exc, failure, history>>

OpenCursorFails ==
  /\ pc = "cursor"
  /\ pc' = "done"
  /\ exc' = "escaped"
  /\ failure' = "cursor"
  /\ UNCHANGED <<file, sink, counters, frame, logged, summary, traced, history>>

\* sample_df = pd.read_csv(CSV_FILE, nrows=1); the columns are printed.
Peek ==
  /\ pc = "peek"
  /\ pc' = "read"
  /\ UNCHANGED <<file, sink, counters, frame, logged, summary, traced, exc,
                 failure, history>>

PeekFails ==
  /\ pc = "peek"
  /\ Raise("source")
  /\ UNCHANGED <<file, sink, counters, frame, logged, summary, traced, exc, history>>

\* for chunk in pd.read_csv(CSV_FILE, chunksize=CHUNK_SIZE): chunk_num += 1
ReadChunk ==
  /\ pc = "read"
  /\ pos < Len(source)
  /\ chunk' = ReadChunkRows(source, columns, pos)
  /\ pos' = pos + Len(chunk')
  /\ chunk_num' = chunk_num + 1
  /\ idx' = 0
  /\ pc' = "clean"
  /\ UNCHANGED <<file, sink, total_rows, error_count, logged, summary, traced,
                 exc, failure, history>>

ReadChunkFails ==
  /\ pc = "read"
  /\ Raise("source")
  /\ UNCHANGED <<file, sink, counters, frame, logged, summary, traced, exc, history>>

\* The iterator is exhausted: the loop ends.
EndOfFile ==
  /\ pc = "read"
  /\ pos = Len(source)
  /\ pc' = "stats"
  /\ UNCHANGED <<file, sink, counters, frame, logged, summary, traced, exc,
                 failure, history>>

\* chunk = clean_data(chunk)
Clean ==
  /\ pc = "clean"
  /\ chunk' = clean_data(chunk)
  /\ idx' = 1
  /\ pc' = "row"
  /\ UNCHANGED <<file, sink, counters, pos, logged, summary, traced, exc,
                 failure, history>>

\* clean_data raises: it runs outside the per-row try.
CleanFails ==
  /\ pc = "clean"
  /\ Raise("clean")
  /\ UNCHANGED <<file, sink, counters, frame, logged, summary, traced, exc, history>>

\* After a row: the next row, or the commit when the chunk is exhausted.
AfterRow ==
  /\ idx' = idx + 1
  /\ pc' = IF idx = Len(chunk) THEN "commit" ELSE "row"

\* The write as it would be on an autocommit connection.
ExecuteOk_Autocommit ==
  /\ pc = "row"
  /\ view' = ReplaceInto(view, Params(chunk[idx]))
  /\ committed' = view'
  /\ outcome' = Append(outcome, "ok")
  /\ AfterRow
  /\ UNCHANGED <<file, conn, cursor, counters, chunk, pos, logged,
                 summary, traced, exc, failure, commit_pos>>

\* cursor.execute("REPLACE INTO ...") succeeds for the current row.
ExecuteOk ==
  /\ pc = "row"
  /\ view' = ReplaceInto(view, Params(chunk[idx]))
  /\ outcome' = Append(outcome, "ok")
  /\ AfterRow
  /\ UNCHANGED <<file, conn, cursor, committed, counters, chunk, pos, logged,
                 summary, traced, exc, failure, commit_pos>>

\* The print guard off by one.
ShouldPrint_Strict(n) == n < ERROR_LOG_LIMIT

\* if error_count <= 10: print(...)
ShouldPrint(n) == n <= ERROR_LOG_LIMIT

\* A per-row handler that re-raises after counting: the chunk is abandoned.
ExecuteFails_Abort ==
  /\ pc = "row"
  /\ error_count' = error_count + 1
  /\ logged' = IF ShouldPrint(error_count') THEN logged + 1 ELSE logged
  /\ outcome' = Append(outcome, "err")
  /\ pc' = "except"
  /\ UNCHANGED <<file, sink, total_rows, chunk_num, frame, summary,
                 traced, exc, failure, commit_pos>>

\* A per-row handler that swallows the error without counting it.
ExecuteFails_Uncounted ==
  /\ pc = "row"
  /\ outcome' = Append(outcome, "err")
  /\ AfterRow
  /\ UNCHANGED <<file, sink, counters, chunk, pos, logged, summary,
                 traced, exc, failure, commit_pos>>

\* cursor.execute raises: the per-row handler counts, maybe prints, continues.
ExecuteFails ==
  /\ pc = "row"
  /\ error_count' = error_count + 1
  /\ logged' = IF ShouldPrint(error_count') THEN logged + 1 ELSE logged
  /\ outcome' = Append(outcome, "err")
  /\ AfterRow
  /\ UNCHANGED <<file, sink, total_rows, chunk_num, chunk, pos, summary,
                 traced, exc, failure, commit_pos>>

\* A total that counts the distinct keys of the chunk.
TotalAfterCommit_Keys(total, ch) ==
  total + Cardinality({ch[i]["Unique Key"] : i \in 1..Len(ch)})

\* total_rows += len(chunk)
TotalAfterCommit(total, ch) == total + Len(ch)

\* conn.commit(); total_rows += len(chunk); the running total is printed.
Commit ==
  /\ pc = "commit"
  /\ committed' = view
  /\ total_rows' = TotalAfterCommit(total_rows, chunk)
  /\ commit_pos' = pos
  /\ pc' = "read"
  /\ UNCHANGED <<file, conn, cursor, view, chunk_num, error_count, frame,
                 logged, summary, traced, exc, failure, outcome>>

\* The total advanced before the commit: a failed commit is still counted.
CommitFails_Counted ==
  /\ pc = "commit"
  /\ total_rows' = TotalAfterCommit(total_rows, chunk)
  /\ Raise("commit")
  /\ UNCHANGED <<file, sink, chunk_num, error_count, frame, logged, summary,
                 traced, exc, history>>

\* conn.commit() raises: line 101 is not reached.
CommitFails ==
  /\ pc = "commit"
  /\ Raise("commit")
  /\ UNCHANGED <<file, sink, counters, frame, logged, summary, traced, exc, history>>

\* The statistics block after the loop.
Stats ==
  /\ pc = "stats"
  /\ summary' = <<[total |-> total_rows, errors |-> error_count]>>
  /\ pc' = "close_cursor"
  /\ UNCHANGED <<file, sink, counters, frame, logged, traced, exc, failure, history>>

\* A rollback that discards nothing.
Rollback_Keep(seen, durable) == seen

\* conn.rollback(): the transaction's writes are discarded.
Rollback(seen, durable) == durable

\* except Exception: the error and its traceback are printed, then rollback.
Except ==
  /\ pc = "except"
  /\ traced' = TRUE
  /\ view' = Rollback(view, committed)
  /\ exc' = "handled"
  /\ pc' = "close_cursor"
  /\ UNCHANGED <<file, conn, cursor, committed, counters, frame, logged,
                 summary, failure, history>>

\* conn.rollback() raises inside the handler: the finally block still runs
\* and the new exception propagates after it.
ExceptRollbackFails ==
  /\ pc = "except"
  /\ traced' = TRUE
  /\ exc' = "pending"
  /\ pc' = "close_cursor"
  /\ UNCHANGED <<file, sink, counters, frame, logged, summary, failure, history>>

\* finally: cursor.close()
CloseCursor ==
  /\ pc = "close_cursor"
  /\ cursor' = "closed"
  /\ pc' = "close_conn"
  /\ UNCHANGED <<file, conn, committed, view, counters, frame, logged,
                 summary, traced, exc, failure, history>>

\* cursor.close() raises: conn.close() on the next line is never reached.
CloseCursorFails ==
  /\ pc = "close_cursor"
  /\ cursor' \in {"open", "closed"}
  /\ exc' = "escaped"
  /\ failure' = IF failure = "none" THEN "cursor_close" ELSE failure
  /\ pc' = "done"
  /\ UNCHANGED <<file, conn, committed, view, counters, frame, logged,
                 summary, traced, history>>

\* finally: conn.close(); a pending exception then leaves main().
CloseConn ==
  /\ pc = "close_conn"
  /\ conn' = "closed"
  /\ exc' = IF exc = "pending" THEN "escaped" ELSE exc
  /\ pc' = "done"
  /\ UNCHANGED <<file, cursor, committed, view, counters, frame, logged,
                 summary, traced, failure, history>>

Next ==
  \/ Connect \/ ConnectFails
  \/ OpenCursor \/ OpenCursorFails
  \/ Peek \/ PeekFails
  \/ ReadChunk \/ ReadChunkFails \/ EndOfFile
  \/ Clean \/ CleanFails
  \/ ExecuteOk \/ ExecuteFails
  \/ Commit \/ CommitFails
  \/ Stats
  \/ Except \/ ExceptRollbackFails
  \/ CloseCursor \/ CloseCursorFails
  \/ CloseConn

Spec == Init /\ [][Next]_vars

SpecLog == InitLog /\ [][Next]_vars

\* ================================================================= claims
\* Data lines among the first n whose write succeeded / failed.
OkIdx(n) == {i \in 1..n : outcome[i] = "ok"}
ErrIdx(n) == {i \in 1..n : outcome[i] = "err"}

KeyOf(i) == source[i]["Unique Key"]

\* The table that last-write-wins prescribes after the first n data lines:
\* per key the row of the latest successful write, and the rows of the
\* initial table whose key was never written.
ExpectedTable(n) ==
  {Stored(source[i], columns) :
     i \in {j \in OkIdx(n) : \A k \in OkIdx(n) : k > j => KeyOf(k) # KeyOf(j)}}
  \cup {t \in table0 : \A i \in OkIdx(n) : KeyOf(i) # t.unique_key}

UniqueKeys(table) ==
  \A t, u \in table : t.unique_key = u.unique_key => t = u

\* The first data line of the current chunk is line ChunkStart + 1.
ChunkStart == pos - Len(chunk)

\* C1: after any sequence of successful row writes the table holds exactly
\* one row per unique_key, and that row is, field for field, the row of the
\* most recent successful write with that key; this holds of the loader's
\* own view while its transaction is live, and of the committed table for
\* the writes of the committed chunks.
C1_LastWriteWins ==
  /\ UniqueKeys(view) /\ UniqueKeys(committed)
  /\ exc = "none" => view = ExpectedTable(Len(outcome))
  /\ pc = "read" => committed = ExpectedTable(Len(outcome))
  /\ (pc = "done" /\ summary # <<>>) =>
       Len(outcome) = Len(source) /\ committed = ExpectedTable(Len(source))

\* C1 witness: a run completed in which a key was written twice with
\* different values, the later write with NULL coordinates where the earlier
\* one had a latitude, and the table holds the later row.
C1_Witness ==
  /\ pc = "done" /\ summary # <<>>
  /\ \E i, j \in OkIdx(Len(outcome)) :
       /\ i < j /\ KeyOf(i) = KeyOf(j)
       /\ Stored(source[i], columns).latitude # None
       /\ Stored(source[j], columns).latitude = None
       /\ Stored(source[j], columns) \in committed
       /\ Stored(source[i], columns) \notin committed

\* C2: in a chunk where exactly one row raises a write error the loader
\* goes on with the next row (or, after the last row, with the commit); once
\* that chunk is committed every other row of it has been written and is
\* persisted, and the error counter has advanced by exactly one (it is 1
\* when no earlier chunk had an error).
C2_ChunkErrs == {i \in (ChunkStart + 1)..pos : outcome[i] = "err"}

C2_Committed ==
  (pc = "read" /\ chunk_num > 0 /\ Cardinality(C2_ChunkErrs) = 1) =>
    /\ Len(outcome) = pos
    /\ Cardinality(OkIdx(pos) \ (1..ChunkStart)) = Len(chunk) - 1
    /\ committed = ExpectedTable(pos)
    /\ error_count = Cardinality(ErrIdx(ChunkStart)) + 1
    /\ ErrIdx(ChunkStart) = {} => error_count = 1

C2_PartialFailure ==
  /\ []C2_Committed
  /\ [][(pc = "row" /\ error_count' # error_count) =>
          /\ error_count' = error_count + 1
          /\ idx' = idx + 1
          /\ pc' = IF idx < Len(chunk) THEN "row" ELSE "commit"]_vars

\* C2 witness: a committed chunk of two rows with distinct keys whose first
\* row failed and whose second row is persisted, with an error counter of 1.
C2_Witness ==
  /\ pc = "read" /\ chunk_num = 1 /\ Len(chunk) = CHUNK_SIZE
  /\ outcome[1] = "err" /\ C2_ChunkErrs = {1}
  /\ error_count = 1
  /\ \A i \in 2..pos : Stored(source[i], columns) \in committed
  /\ Cardinality({KeyOf(i) : i \in 1..pos}) = pos

\* C3: a fatal failure during chunk k ends the run: from then on no chunk is
\* read, no row is written and nothing is committed; the committed table is
\* the one the chunks 1..k-1 left, and after the rollback the transaction
\* holds no write of chunk k.
Fatal == failure \in {"source", "clean", "commit"}

C3_FatalState ==
  Fatal =>
    /\ pc \in {"except", "close_cursor", "close_conn", "done"}
    /\ summary = <<>>
    /\ committed = ExpectedTable(commit_pos)
    /\ commit_pos = IF failure = "source" THEN pos ELSE ChunkStart
    /\ exc = "handled" => view = committed

C3_FatalAborts ==
  /\ []C3_FatalState
  /\ [][Fatal => /\ chunk_num' = chunk_num /\ pos' = pos
                 /\ outcome' = outcome /\ committed' = committed
                 /\ total_rows' = total_rows]_vars

\* C3 witness: the commit of the second chunk failed after a write of that
\* chunk had changed the transaction's view; the run has ended, the rollback
\* ran, and the table is the one the first chunk committed.
C3_Witness ==
  /\ pc = "done" /\ failure = "commit" /\ exc = "handled"
  /\ chunk_num = 2 /\ commit_pos = CHUNK_SIZE
  /\ committed # table0
  /\ ExpectedTable(Len(outcome)) # committed
  /\ view = committed

\* C4: a chunk becomes visible as a unit: the committed table changes only
\* in the commit step, which publishes the whole view at once, so at every
\* point it is the result of whole chunks (the writes of the lines up to a
\* chunk boundary) and never shows a write of an uncommitted chunk or of a
\* chunk whose commit failed.
ChunkBoundaries ==
  {n \in 0..Len(source) : n % CHUNK_SIZE = 0 \/ n = Len(source)}

C4_WholeChunks ==
  /\ commit_pos \in ChunkBoundaries
  /\ committed = ExpectedTable(commit_pos)

C4_ChunkAtomic ==
  /\ []C4_WholeChunks
  /\ [][committed' # committed =>
          pc = "commit" /\ committed' = view /\ commit_pos' = pos]_vars

\* C4 witness: a commit failed while the transaction held writes of the
\* chunk that readers do not see.
C4_Witness ==
  /\ pc = "except" /\ failure = "commit"
  /\ view # committed
  /\ view = ExpectedTable(Len(outcome))
  /\ committed = ExpectedTable(commit_pos)

\* C5: when the run has ended, on whatever path, no connection and no
\* cursor that was acquired is still open.
C5_AllReleased ==
  pc = "done" => conn # "open" /\ cursor # "open"

\* C6: on normal completion the reported total is the number of data lines
\* of the source, every line counted once whatever its key.
C6_TotalIsInputRows ==
  summary # <<>> =>
    /\ summary[1].total = Len(source)
    /\ total_rows = Len(source)

\* C6 witness: the summary of a run over a source with a repeated key, so
\* that the total exceeds the number of distinct keys.
C6_Witness ==
  /\ pc = "done" /\ summary # <<>>
  /\ summary[1].total = MaxRows
  /\ Cardinality({KeyOf(i) : i \in 1..Len(source)}) < Len(source)

\* The borough of a data line is missing: no Borough column, or a cell the
\* reader takes for a missing value (the empty cell among them).
BoroughMissing(raw) ==
  "Borough" \notin columns \/ ReadCell(raw["Borough"]) = NaN

WhitespaceStrings == {" ", "  "}

BoroughWhitespace(raw) ==
  "Borough" \in columns /\ raw["Borough"] \in WhitespaceStrings

\* The successful writes that are the latest for their key.
LastOk == {i \in OkIdx(Len(outcome)) :
             \A k \in OkIdx(Len(outcome)) : k > i => KeyOf(k) # KeyOf(i)}

RowInView(i) == CHOOSE t \in view : t.unique_key = KeyOf(i)

NoNullBorough ==
  \A t \in view \cup committed : t.borough \notin {"", None, NaN, NaT}

\* C7 as stated: a blank, missing or whitespace borough is "UNKNOWN" after
\* cleaning and in the stored row, and no stored borough is empty or null.
C7_Original ==
  /\ pc \in {"row", "commit"} =>
       \A i \in 1..Len(chunk) :
         (BoroughMissing(source[ChunkStart + i]) \/ BoroughWhitespace(source[ChunkStart + i])) =>
           /\ "Borough" \in columns => chunk[i]["Borough"] = "UNKNOWN"
           /\ Params(chunk[i]).borough = "UNKNOWN"
  /\ exc = "none" =>
       \A i \in LastOk :
         (BoroughMissing(source[i]) \/ BoroughWhitespace(source[i])) =>
           RowInView(i).borough = "UNKNOWN"
  /\ NoNullBorough

\* C7 as amended: a missing or empty borough (the column absent included) is
\* "UNKNOWN" after cleaning and in the stored row; a whitespace-only borough
\* is kept as it is; no stored borough is empty or null.
C7_MissingBoroughUnknown ==
  /\ pc \in {"row", "commit"} =>
       \A i \in 1..Len(chunk) :
         /\ BoroughMissing(source[ChunkStart + i]) =>
              /\ "Borough" \in columns => chunk[i]["Borough"] = "UNKNOWN"
              /\ Params(chunk[i]).borough = "UNKNOWN"
         /\ BoroughWhitespace(source[ChunkStart + i]) =>
              chunk[i]["Borough"] = source[ChunkStart + i]["Borough"]
  /\ exc = "none" =>
       \A i \in LastOk :
         /\ BoroughMissing(source[i]) => RowInView(i).borough = "UNKNOWN"
         /\ BoroughWhitespace(source[i]) => RowInView(i).borough = source[i]["Borough"]
  /\ NoNullBorough

\* C7 witness: with a Borough column, a line with an empty borough is stored
\* as "UNKNOWN" and a line with a whitespace borough is stored unchanged.
C7_Witness ==
  /\ "Borough" \in columns /\ exc = "none"
  /\ \E i, j \in LastOk :
       /\ source[i]["Borough"] = "" /\ RowInView(i).borough = "UNKNOWN"
       /\ source[j]["Borough"] = " " /\ RowInView(j).borough = " "

\* C8 as stated: every per-row failure, of cleaning as of writing, is counted
\* and the run goes on; no cleaning or write failure reaches the fatal
\* handler.
C8_Original ==
  /\ error_count = Cardinality(ErrIdx(Len(outcome)))
  /\ pc = "except" => failure \in {"source", "commit"}

\* A cell of the line fails date or number parsing.
Unparseable(raw) ==
  \E c \in columns \cap {"Created Date", "Closed Date", "Latitude", "Longitude"} :
    ReadCell(raw[c]) # NaN /\ raw[c] \notin DateStrings \cup NumericStrings

\* C8 as amended: every write failure on a row is counted and only that row
\* is skipped, the chunk and the run go on.  Cleaning is not per row: a value
\* that fails parsing becomes NULL and its row is written and not counted,
\* and an exception raised by the cleaning of a chunk is fatal.
C8_State ==
  /\ error_count = Cardinality(ErrIdx(Len(outcome)))
  /\ pc = "except" => failure \in {"source", "clean", "commit"}
  /\ failure = "clean" =>
       /\ pc \in {"except", "close_cursor", "close_conn", "done"}
       /\ summary = <<>> /\ commit_pos = ChunkStart /\ Len(outcome) = ChunkStart
  /\ exc = "none" =>
       \A i \in LastOk : Unparseable(source[i]) => Stored(source[i], columns) \in view

C8_RowFailuresRecoverable ==
  /\ []C8_State
  /\ [][error_count' # error_count =>
          /\ pc = "row" /\ pc' \in {"row", "commit"}
          /\ view' = view /\ chunk' = chunk /\ failure' = failure
          /\ outcome' = Append(outcome, "err")]_vars

\* C8 witness: a run that completed normally although one write failed, in
\* which a line with an unparseable latitude was stored with a NULL latitude
\* and not counted as an error.
C8_Witness ==
  /\ pc = "done" /\ summary # <<>> /\ error_count = 1
  /\ \E i \in LastOk :
       /\ "Latitude" \in columns /\ source[i]["Latitude"] = "bad"
       /\ Stored(source[i], columns) \in committed
       /\ Stored(source[i], columns).latitude = None
  /\ \E k \in ErrIdx(Len(outcome)) : k < Len(outcome)

\* C9: a run that ended after a run-level failure went through the fatal
\* path: the error and its traceback were printed by the handler, and no
\* exception left main().
C9_AllHandled ==
  (pc = "done" /\ failure \in {"connect", "source", "clean", "commit"}) =>
    traced /\ exc = "handled"

\* C10: at every point the number of per-row error messages printed is
\* min(error_count, 10); error_count is the number of failed writes of the
\* whole run, it never decreases, and a failed write, the eleventh and later
\* included, only moves the loop on.
C10_State ==
  /\ logged = Min(error_count, ERROR_LOG_LIMIT)
  /\ error_count = Cardinality(ErrIdx(Len(outcome)))

C10_BoundedLogging ==
  /\ []C10_State
  /\ [][/\ error_count' >= error_count
        /\ logged' >= logged
        /\ error_count' # error_count =>
             pc' = IF idx < Len(chunk) THEN "row" ELSE "commit"]_vars

\* C10 witness: the eleventh write failure, in a later chunk, is counted but
\* not printed, and the loop goes on with the next row.
C10_Witness ==
  /\ pc = "row" /\ chunk_num > 1
  /\ error_count = ERROR_LOG_LIMIT + 1
  /\ logged = ERROR_LOG_LIMIT
  /\ outcome[Len(outcome)] = "err"

\* The current chunk has been read and is not committed.
InFlight ==
  pc \in {"clean", "row", "commit"} \/ failure \in {"clean", "commit"}

\* C11: the running total advances only in the step in which a commit
\* succeeds, by the size of the chunk committed; in every state it is the
\* number of data lines of the committed chunks, failed rows included and
\* the lines of the chunk in flight or rolled back excluded, also after a
\* fatal abort.
C11_State ==
  /\ total_rows = commit_pos
  /\ total_rows = IF InFlight THEN ChunkStart ELSE pos
  /\ total_rows = Cardinality(OkIdx(total_rows)) + Cardinality(ErrIdx(total_rows))
  /\ committed = ExpectedTable(total_rows)

C11_TotalCountsCommitted ==
  /\ []C11_State
  /\ [][total_rows' # total_rows =>
          /\ pc = "commit" /\ pc' = "read"
          /\ committed' = view
          /\ total_rows' = total_rows + Len(chunk)]_vars

\* C11 witness: the commit of the second chunk failed after its rows were
\* executed; the run has ended and the total is the size of the first
\* chunk, one row of which had failed its write.
C11_Witness ==
  /\ pc = "done" /\ failure = "commit" /\ chunk_num = 2
  /\ total_rows = CHUNK_SIZE
  /\ Len(outcome) > total_rows
  /\ ErrIdx(total_rows) # {}

====
